---- MODULE Spec2Model ----
(***************************************************************************)
(* Admission control of the game library backend: the in-memory            *)
(* RateLimitService (security/rate-limit.service.ts) and the Redis-backed  *)
(* RedisRateLimitService with its local fallback map                       *)
(* (security/rate-limit.guard.ts, second half).                            *)
(*                                                                         *)
(* Time is Date.now() in milliseconds.  The Redis server is modelled by    *)
(* the commands the service issues: GET, TTL, INCR, EXPIRE, SETEX, DEL,    *)
(* ZREMRANGEBYSCORE, ZCARD, ZADD, ZREM, with native key expiry.            *)
(***************************************************************************)
EXTENDS Integers, FiniteSets, Sequences, TLC

\* ------------------------------------------------------------------ bounds
\* Largest valid maxRequests of a policy of the model.
MaxN == 2
\* Number of clock steps of TickMs a behaviour may take.
MaxTicks == 4
\* Largest number of checkLimit calls of a behaviour.
MaxChecks == 4
\* Runs with an unreliable remote store: the number of remote calls that
\* fail, of clock steps and of checkLimit calls, and the largest maxRequests.
MaxFails == 2
OutageTicks == 1
OutageChecks == 3
OutageN == 1
\* Number of callers whose checks of one key run concurrently.
MaxCallers == 3
\* Number of firings of the fallback sweep timer a behaviour may see.
MaxSweeps == 1
\* Number of half-second clock steps before the first long wait.
SweepTicks == 2
\* Number of tasks the queue holds at a time, and the maxAttempts of a task.
MaxTasks == 4
MaxAttempts == 2

\* Milliseconds per second: the divisor of Math.ceil(ms / 1000) and the
\* factor of ttl * 1000.
SecMs == 1000
\* The clock advances in half seconds.
TickMs == SecMs \div 2
\* The period of the fallback sweep: `5 * 60 * 1000`.
CleanupIntervalMs == 5 * 60 * SecMs

Keys == {"k1"}
EmptyKey == ""

\* A window of whole seconds and one that is not (1000 and 1200 ms), and
\* the invalid window of 0 ms.
Windows == {0, SecMs, SecMs + SecMs \div 5}
Penalties == {0, SecMs + TickMs}
Algorithms == {"fixed", "sliding"}
\* maxRequests = 0 and windowMs = 0 are the invalid policies the
\* remote-backed service rejects.
Configs ==
  [windowMs : Windows, maxRequests : 0..MaxN, blockDurationMs : Penalties,
   algorithm : Algorithms]

VARIABLES
  now,             \* Date.now()
  target,          \* which service the callers of this deployment use
  config,          \* the policy of the route, fixed at startup
  limits,          \* RateLimitService.limits : key -> {count, resetTime}
  blockedKeys,     \* RateLimitService.blockedKeys : key -> unblock time
  redis,           \* the remote store: three key families
  fallbackLimits,  \* RedisRateLimitService.fallbackLimits
  last,            \* the last call and what it returned
  hist,            \* per key: the checks made since the key was fresh
  budget,          \* checks, remote failures and clock steps the run has left
  calls,           \* per concurrent caller: how far its checkLimit has got
  cleanupInterval, \* RedisRateLimitService.cleanupInterval: its next firing
  tasks,           \* TaskQueueService.tasks : id -> task
  queue,           \* TaskQueueService.queue : the ids of the waiting tasks
  isProcessing,    \* TaskQueueService.isProcessing
  activeTasks,     \* TaskQueueService.activeTasks
  executing,       \* the tasks whose executeTask promise is not settled
  backoff,         \* the tasks with a retry setTimeout not yet fired
  immediates       \* the setImmediate(processQueue) callbacks not yet run

\* The state of TaskQueueService.
queueVars ==
  <<tasks, queue, isProcessing, activeTasks, executing, backoff, immediates>>

vars ==
  <<now, target, config, limits, blockedKeys, redis, fallbackLimits, last,
    hist, budget, calls, cleanupInterval, queueVars>>

\* ----------------------------------------------------------------- helpers
EmptyMap == [x \in {} |-> 0]
Has(m, k) == k \in DOMAIN m
Put(m, k, v) == [x \in DOMAIN m \cup {k} |-> IF x = k THEN v ELSE m[x]]
Del(m, k) == [x \in DOMAIN m \ {k} |-> m[x]]
Min(a, b) == IF a <= b THEN a ELSE b
Max(a, b) == IF a >= b THEN a ELSE b

\* Math.ceil(ms / 1000)
CeilSeconds(ms) == (ms + SecMs - 1) \div SecMs

Decision(a, r, t, b) ==
  [allowed |-> a, remainingRequests |-> r, resetTime |-> t, blocked |-> b]
NoDecision == Decision(FALSE, -1, -1, FALSE)

\* `if (config.blockDurationMs)`: undefined and 0 are both falsy.
HasPenalty(cfg) == cfg.blockDurationMs # 0

\* -------------------------------------------------- RateLimitService (memory)
\* `blockedUntil && now < blockedUntil`
MemIsBlocked(blk, key, t) == Has(blk, key) /\ blk[key] # 0 /\ t < blk[key]

\* `!entry || now >= entry.resetTime`
WindowExpired(m, key, t) == ~Has(m, key) \/ t >= m[key].resetTime

\* `entry.count >= config.maxRequests`
QuotaReached(count, cfg) == count >= cfg.maxRequests

MemCheckLimit(key, cfg, t, lim, blk) ==
  IF MemIsBlocked(blk, key, t)
  THEN [decision |-> Decision(FALSE, 0, blk[key], TRUE),
        limits |-> lim, blockedKeys |-> blk]
  ELSE
    LET blk1 == IF Has(blk, key) /\ blk[key] # 0 /\ t >= blk[key]
                THEN Del(blk, key) ELSE blk
        entry == IF WindowExpired(lim, key, t)
                 THEN [count |-> 0, resetTime |-> t + cfg.windowMs]
                 ELSE lim[key]
        lim1 == Put(lim, key, entry)
    IN IF QuotaReached(entry.count, cfg)
       THEN [decision |->
               Decision(FALSE, 0, entry.resetTime, HasPenalty(cfg)),
             limits |-> lim1,
             blockedKeys |-> IF HasPenalty(cfg)
                             THEN Put(blk1, key, t + cfg.blockDurationMs)
                             ELSE blk1]
       ELSE [decision |->
               Decision(TRUE, cfg.maxRequests - (entry.count + 1),
                        entry.resetTime, FALSE),
             limits |-> Put(lim1, key, [entry EXCEPT !.count = @ + 1]),
             blockedKeys |-> blk1]

MemGetRemainingRequests(key, maxRequests, t, lim) ==
  IF ~Has(lim, key) THEN maxRequests
  ELSE IF t >= lim[key].resetTime THEN maxRequests
  ELSE Max(0, maxRequests - lim[key].count)

\* A sweep that empties the block map.
MemCleanupBlocksAll(blk, t) == EmptyMap

MemCleanupLimits(lim, t) ==
  [k \in {x \in DOMAIN lim : ~(t >= lim[x].resetTime)} |-> lim[k]]
MemCleanupBlocks(blk, t) ==
  [k \in {x \in DOMAIN blk : ~(t >= blk[x])} |-> blk[k]]

\* ------------------------------------------------------------ the remote store
\* A key without expiry (INCR or ZADD created it and no EXPIRE followed).
NoExpiry == 0 - 1

EmptyStore ==
  [rate_limit |-> EmptyMap, sliding_rate_limit |-> EmptyMap,
   rate_limit_block |-> EmptyMap]

\* Native expiry: the server drops a key once its expiry time is reached.
Alive(m, t) ==
  [k \in {x \in DOMAIN m : m[x].expireAt = NoExpiry \/ t < m[x].expireAt}
     |-> m[k]]
RedisExpire(st, t) ==
  [rate_limit |-> Alive(st.rate_limit, t),
   sliding_rate_limit |-> Alive(st.sliding_rate_limit, t),
   rate_limit_block |-> Alive(st.rate_limit_block, t)]

\* TTL key: -2 without the key, -1 without expiry, else the remaining
\* milliseconds rounded to the nearest second.
RedisTtl(m, key, t) ==
  IF ~Has(m, key) THEN 0 - 2
  ELSE IF m[key].expireAt = NoExpiry THEN 0 - 1
  ELSE (m[key].expireAt - t + (SecMs \div 2)) \div SecMs

\* A counter written back from a value read earlier: increments of two
\* connections that arrive together both store 1.
RedisIncrOverwrites(m, key) ==
  Put(m, key, [value |-> 1, expireAt |-> NoExpiry])

\* INCR key: creates the key at 1, keeps the expiry of an existing key.
RedisIncr(m, key) ==
  IF Has(m, key) THEN Put(m, key, [m[key] EXCEPT !.value = @ + 1])
  ELSE Put(m, key, [value |-> 1, expireAt |-> NoExpiry])

\* EXPIRE key seconds
RedisExpireCmd(m, key, seconds, t) ==
  IF Has(m, key) THEN Put(m, key, [m[key] EXCEPT !.expireAt = t + seconds * SecMs])
  ELSE m

\* SETEX key seconds '1'
RedisSetex(m, key, seconds, t) ==
  Put(m, key, [expireAt |-> t + seconds * SecMs])

RedisZremrangebyscoreNothing(m, key, lo, hi) == m

\* ZREMRANGEBYSCORE key min max (both ends inclusive); an emptied set is no key.
RedisZremrangebyscore(m, key, lo, hi) ==
  IF ~Has(m, key) THEN m
  ELSE LET kept == {e \in m[key].members : ~(lo <= e.score /\ e.score <= hi)}
       IN IF kept = {} THEN Del(m, key)
          ELSE Put(m, key, [m[key] EXCEPT !.members = kept])

\* ZCARD key
RedisZcard(m, key) == IF Has(m, key) THEN Cardinality(m[key].members) ELSE 0

\* ZADD key score member
RedisZadd(m, key, score, member) ==
  IF Has(m, key)
  THEN Put(m, key,
           [m[key] EXCEPT !.members =
              {e \in @ : e.member # member}
                \cup {[score |-> score, member |-> member]}])
  ELSE Put(m, key, [members |-> {[score |-> score, member |-> member]},
                    expireAt |-> NoExpiry])

\* ZREM key member
RedisZrem(m, key, member) ==
  IF ~Has(m, key) THEN m
  ELSE LET kept == {e \in m[key].members : e.member # member}
       IN IF kept = {} THEN Del(m, key)
          ELSE Put(m, key, [m[key] EXCEPT !.members = kept])

Members(m, key) == IF Has(m, key) THEN m[key].members ELSE {}

\* Math.random(): a value not drawn before (two draws coincide with
\* probability about 2^-52); the least number not in `drawn`.
MathRandom(drawn) ==
  CHOOSE n \in 0..Cardinality(drawn) :
    n \notin drawn /\ \A x \in 0..Cardinality(drawn) : x \notin drawn => n <= x

\* A remote call may fail.  `call` names the failing call of one checkLimit,
\* `done` how many of its commands took effect on the server before the
\* failure was reported (a pipeline is no transaction; a reply may be lost).
NoFail == [call |-> "none", done |-> 0]
Fails ==
  {NoFail} \cup [call : {"get", "ttl"}, done : {0}]
    \cup [call : {"pipeline"}, done : 0..4]
    \cup [call : {"zrem"}, done : {0}]
    \cup [call : {"setex"}, done : {0, 1}]

\* The calls a check with this key and policy can reach at all.
CanFail(f, key, cfg) ==
  f # NoFail =>
    /\ key \in Keys
    /\ cfg.maxRequests > 0
    /\ f.call = "zrem" => cfg.algorithm = "sliding"
    /\ f.call = "setex" => cfg.blockDurationMs # 0
    /\ (f.call = "pipeline" /\ cfg.algorithm = "fixed") => f.done <= 2

Threw(st, zb) == [threw |-> TRUE, decision |-> NoDecision, redis |-> st, zBefore |-> zb]
Returned(d, st, zb) == [threw |-> FALSE, decision |-> d, redis |-> st, zBefore |-> zb]

\* ---------------------------------------------------- RedisRateLimitService
\* `const isBlocked = await this.redis.get(blockKey); if (isBlocked)`
RedisIsBlocked(st, key) == Has(st.rate_limit_block, key)

\* The decision of a check that finds the block key.
BlockedDecision(st, key, t) ==
  Decision(FALSE, 0, t + RedisTtl(st.rate_limit_block, key, t) * SecMs, TRUE)

\* `count > config.maxRequests` of the fixed window
FixedOverQuota(count, cfg) == count > cfg.maxRequests

SlidingOverQuotaOffByOne(count, cfg) == count > cfg.maxRequests

\* `count >= config.maxRequests` of the sliding window
SlidingOverQuota(count, cfg) == count >= cfg.maxRequests

SetBlockForWindow(key, cfg, t, f, st, d, zb) ==
  LET st1 == [st EXCEPT !.rate_limit_block =
                RedisSetex(@, key, CeilSeconds(cfg.windowMs), t)]
  IN IF f.call = "setex"
     THEN Threw(IF f.done >= 1 THEN st1 ELSE st, zb)
     ELSE Returned(d, st1, zb)

\* The block set by an over-quota check, with the failure of its SETEX.
SetBlock(key, cfg, t, f, st, d, zb) ==
  LET st1 == [st EXCEPT !.rate_limit_block =
                RedisSetex(@, key, CeilSeconds(cfg.blockDurationMs), t)]
  IN IF f.call = "setex"
     THEN Threw(IF f.done >= 1 THEN st1 ELSE st, zb)
     ELSE Returned(d, st1, zb)

CheckFixedWindowLimit(key, cfg, t, f, st) ==
  IF f.call = "get" THEN Threw(st, {})
  ELSE IF RedisIsBlocked(st, key)
  THEN IF f.call = "ttl" THEN Threw(st, {})
       ELSE Returned(BlockedDecision(st, key, t), st, {})
  ELSE
    LET ran == IF f.call = "pipeline" THEN Min(f.done, 2) ELSE 2
        c1 == IF ran >= 1 THEN RedisIncr(st.rate_limit, key)
              ELSE st.rate_limit
        c2 == IF ran >= 2
              THEN RedisExpireCmd(c1, key, CeilSeconds(cfg.windowMs), t)
              ELSE c1
        st2 == [st EXCEPT !.rate_limit = c2]
        count == c1[key].value
        denial == Decision(FALSE, 0, t + cfg.windowMs, HasPenalty(cfg))
    IN IF f.call = "pipeline" THEN Threw(st2, {})
       ELSE IF FixedOverQuota(count, cfg)
       THEN IF HasPenalty(cfg)
            THEN SetBlock(key, cfg, t, f, st2, denial, {})
            ELSE Returned(denial, st2, {})
       ELSE Returned(Decision(TRUE, cfg.maxRequests - count,
                              t + cfg.windowMs, FALSE), st2, {})

\* The member added for the request: `${now}-${Math.random()}`.
InsertedMember(t, present) ==
  <<t, MathRandom({e.member[2] : e \in present})>>

\* The member named by the compensating ZREM: `${now}-${Math.random()}`,
\* a second draw.
RemovedMember(t, present, inserted) ==
  <<t, MathRandom({e.member[2] : e \in present} \cup {inserted[2]})>>

CheckSlidingWindowLimit(key, cfg, t, f, st) ==
  IF f.call = "get" THEN Threw(st, {})
  ELSE IF RedisIsBlocked(st, key)
  THEN IF f.call = "ttl" THEN Threw(st, {})
       ELSE Returned(BlockedDecision(st, key, t), st, {})
  ELSE
    LET windowStart == t - cfg.windowMs
        ran == IF f.call = "pipeline" THEN Min(f.done, 4) ELSE 4
        z1 == IF ran >= 1
              THEN RedisZremrangebyscore(st.sliding_rate_limit, key, 0,
                                         windowStart)
              ELSE st.sliding_rate_limit
        count == RedisZcard(z1, key)
        before == Members(z1, key)
        member == InsertedMember(t, before)
        z3 == IF ran >= 3 THEN RedisZadd(z1, key, t, member) ELSE z1
        z4 == IF ran >= 4
              THEN RedisExpireCmd(z3, key, CeilSeconds(cfg.windowMs), t)
              ELSE z3
        st4 == [st EXCEPT !.sliding_rate_limit = z4]
        z5 == RedisZrem(z4, key, RemovedMember(t, before, member))
        st5 == [st EXCEPT !.sliding_rate_limit = z5]
        denial == Decision(FALSE, 0, t + cfg.windowMs, HasPenalty(cfg))
    IN IF f.call = "pipeline" THEN Threw(st4, before)
       ELSE IF SlidingOverQuota(count, cfg)
       THEN IF f.call = "zrem"
            THEN Threw(IF f.done >= 1 THEN st5 ELSE st4, before)
            ELSE IF HasPenalty(cfg)
                 THEN SetBlock(key, cfg, t, f, st5, denial, before)
                 ELSE Returned(denial, st5, before)
       ELSE Returned(Decision(TRUE, cfg.maxRequests - count - 1,
                              t + cfg.windowMs, FALSE), st4, before)

\* `!entry || now >= entry.resetTime` of the fallback map
FallbackWindowExpired(fb, key, t) == ~Has(fb, key) \/ t >= fb[key].resetTime

CheckFallbackLimit(key, cfg, t, fb) ==
  LET entry == IF FallbackWindowExpired(fb, key, t)
               THEN [count |-> 0, resetTime |-> t + cfg.windowMs]
               ELSE fb[key]
      fb1 == Put(fb, key, entry)
  IN IF entry.count >= cfg.maxRequests
     THEN [decision |-> Decision(FALSE, 0, entry.resetTime, FALSE),
           fallbackLimits |-> fb1]
     ELSE [decision |->
             Decision(TRUE, cfg.maxRequests - (entry.count + 1),
                      entry.resetTime, FALSE),
           fallbackLimits |-> Put(fb1, key, [entry EXCEPT !.count = @ + 1])]

\* `!key || typeof key !== 'string'`
InvalidKey(key) == key = EmptyKey
\* `!config || config.windowMs <= 0 || config.maxRequests <= 0`
InvalidConfig(cfg) == cfg.windowMs <= 0 \/ cfg.maxRequests <= 0

\* The try block of checkLimit: the algorithm the policy names.
RemoteAttempt(key, cfg, t, f, st) ==
  IF cfg.algorithm = "sliding"
  THEN CheckSlidingWindowLimit(key, cfg, t, f, st)
  ELSE CheckFixedWindowLimit(key, cfg, t, f, st)

Outcome(th, d, path, st, fb, zb) ==
  [threw |-> th, decision |-> d, path |-> path, redis |-> st,
   fallbackLimits |-> fb, zBefore |-> zb]

RedisCheckLimitUnvalidated(key, cfg, t, f, st, fb) ==
  LET r == RemoteAttempt(key, cfg, t, f, st)
      g == CheckFallbackLimit(key, cfg, t, fb)
  IN IF r.threw
     THEN Outcome(FALSE, g.decision, "fallback", r.redis,
                  g.fallbackLimits, r.zBefore)
     ELSE Outcome(FALSE, r.decision, "remote", r.redis, fb, r.zBefore)

RedisCheckLimitRethrows(key, cfg, t, f, st, fb) ==
  IF InvalidKey(key) \/ InvalidConfig(cfg)
  THEN Outcome(TRUE, NoDecision, "none", st, fb, {})
  ELSE LET r == RemoteAttempt(key, cfg, t, f, st)
       IN IF r.threw
          THEN Outcome(TRUE, NoDecision, "none", r.redis, fb, r.zBefore)
          ELSE Outcome(FALSE, r.decision, "remote", r.redis, fb, r.zBefore)

RedisCheckLimit(key, cfg, t, f, st, fb) ==
  IF InvalidKey(key) \/ InvalidConfig(cfg)
  THEN Outcome(TRUE, NoDecision, "none", st, fb, {})
  ELSE LET r == RemoteAttempt(key, cfg, t, f, st)
           g == CheckFallbackLimit(key, cfg, t, fb)
       IN IF r.threw
          THEN Outcome(FALSE, g.decision, "fallback", r.redis,
                       g.fallbackLimits, r.zBefore)
          ELSE Outcome(FALSE, r.decision, "remote", r.redis, fb, r.zBefore)

\* getRemainingRequests: `fails` is the failure of its one GET.
RedisGetRemainingRequests(key, maxRequests, t, fails, st, fb) ==
  IF ~fails
  THEN IF ~Has(st.rate_limit, key) THEN maxRequests
       ELSE Max(0, maxRequests - st.rate_limit[key].value)
  ELSE IF ~Has(fb, key) \/ t >= fb[key].resetTime THEN maxRequests
       ELSE Max(0, maxRequests - fb[key].count)

RedisClearLimitKeepsBlock(key, ran, st) ==
  [rate_limit |-> IF ran >= 1 THEN Del(st.rate_limit, key)
                  ELSE st.rate_limit,
   sliding_rate_limit |-> IF ran >= 2 THEN Del(st.sliding_rate_limit, key)
                          ELSE st.sliding_rate_limit,
   rate_limit_block |-> st.rate_limit_block]

\* The three DELs of clearLimit, `ran` of which took effect.
RedisClearLimit(key, ran, st) ==
  [rate_limit |-> IF ran >= 1 THEN Del(st.rate_limit, key)
                  ELSE st.rate_limit,
   sliding_rate_limit |-> IF ran >= 2 THEN Del(st.sliding_rate_limit, key)
                          ELSE st.sliding_rate_limit,
   rate_limit_block |-> IF ran >= 3 THEN Del(st.rate_limit_block, key)
                        ELSE st.rate_limit_block]

CleanupFallback(fb, t) ==
  [k \in {x \in DOMAIN fb : ~(t >= fb[x].resetTime)} |-> fb[k]]

\* ------------------------------------------------------------ RateLimitGuard
\* What canActivate does with a request: `admitted` it returns true, `threw`
\* it fails with an error other than the 429 of a denied decision, `path`
\* the service that decided ("open" without a policy, "skipped" by skipIf).
GuardOutcome(adm, th, d, path, st, fb, lim, blk) ==
  [admitted |-> adm, threw |-> th, decision |-> d, path |-> path,
   redis |-> st, fallbackLimits |-> fb, limits |-> lim, blockedKeys |-> blk]

\* The try block of canActivate and its catch block: `r` is the call of the
\* remote-backed service, `m` the call of the in-memory service that is made
\* when the first one throws.
Routed(r, m, lim, blk) ==
  IF r.threw
  THEN GuardOutcome(m.decision.allowed, FALSE, m.decision, "memory",
                    r.redis, r.fallbackLimits, m.limits, m.blockedKeys)
  ELSE GuardOutcome(r.decision.allowed, FALSE, r.decision, r.path,
                    r.redis, r.fallbackLimits, lim, blk)

CanActivateNoOptOut(registered, skip, key, cfg, t, f, st, fb, lim, blk) ==
  Routed(RedisCheckLimit(key, cfg, t, f, st, fb),
         MemCheckLimit(key, cfg, t, lim, blk), lim, blk)

\* The guard over the remote-backed service, with the in-memory service in
\* its catch block.  `registered`: the route has rate-limit options; `skip`:
\* options.skipIf(request) holds.
CanActivate(registered, skip, key, cfg, t, f, st, fb, lim, blk) ==
  IF ~registered
  THEN GuardOutcome(TRUE, FALSE, NoDecision, "open", st, fb, lim, blk)
  ELSE IF skip
  THEN GuardOutcome(TRUE, FALSE, NoDecision, "skipped", st, fb, lim, blk)
  ELSE Routed(RedisCheckLimit(key, cfg, t, f, st, fb),
              MemCheckLimit(key, cfg, t, lim, blk), lim, blk)

\* The decision `m` of the in-memory service as the guard's answer.
Decided429(m, st, fb) ==
  GuardOutcome(m.decision.allowed, FALSE, m.decision, "memory", st, fb,
               m.limits, m.blockedKeys)

\* The guard over the in-memory service alone.
CanActivateMemory(registered, skip, key, cfg, t, st, fb, lim, blk) ==
  IF ~registered
  THEN GuardOutcome(TRUE, FALSE, NoDecision, "open", st, fb, lim, blk)
  ELSE IF skip
  THEN GuardOutcome(TRUE, FALSE, NoDecision, "skipped", st, fb, lim, blk)
  ELSE Decided429(MemCheckLimit(key, cfg, t, lim, blk), st, fb)

\* ------------------------------------------------------- observation of a run
\* What is recorded about the checks of a key since it was fresh (never seen,
\* or cleared): `first` the time of the first check, `n` their number,
\* `burst` how many were made at time `first` (kept for a sliding policy),
\* `winStart` the first check of the current window of windowMs (kept for a
\* fixed policy), `blockAt` the time of the last check that set a block,
\* `cleared` what a clearLimit that reached the store removed to make the key
\* fresh ("no" without one), `admits` the times of the allowed checks that
\* are less than windowMs, rounded up to whole seconds, old, `due` the
\* resetTime of the last check when it was denied.
FreshHist(c) ==
  [first |-> 0 - 1, n |-> 0, burst |-> 0, winStart |-> 0 - 1,
   blockAt |-> 0 - 1, cleared |-> c, admits |-> <<>>, due |-> 0 - 1]

\* What a check finds: `quiet` no check was allowed in the windowMs, rounded
\* up to whole seconds, before it, `due` it is made at the resetTime the denied check before it reported,
\* `seen` the number of checks allowed before it in the current window.
NoPre == [quiet |-> FALSE, due |-> FALSE, seen |-> 0]

Idle(op) ==
  [op |-> op, key |-> EmptyKey, threw |-> FALSE, decision |-> NoDecision,
   path |-> "none", at |-> 0 - 1, hadBlock |-> FALSE, opens |-> FALSE,
   zBefore |-> {}, value |-> 0 - 1, pre |-> NoPre, admitted |-> FALSE,
   route |-> "none"]

\* The check is the first one of a window of windowMs: the first check of
\* the key, or the first one at or after the end of the window before.
Opens(h, t, cfg) == h.n = 0 \/ t >= h.winStart + cfg.windowMs

\* An allowed check made at time x is, at time t, less than windowMs rounded
\* up to whole seconds old (the lifetime EXPIRE gives the remote keys).
StillCounts(x, t, cfg) == t < x + CeilSeconds(cfg.windowMs) * SecMs

\* The allowed checks of the history that count at time t: those of the
\* current window (fixed), those less than windowMs old (sliding).
Recent(h, t, cfg) ==
  IF cfg.algorithm = "fixed"
  THEN IF Opens(h, t, cfg) THEN <<>>
       ELSE SelectSeq(h.admits, LAMBDA x : x >= h.winStart)
  ELSE SelectSeq(h.admits, LAMBDA x : x > t - cfg.windowMs)

Pre(h, t, cfg) ==
  [quiet |-> \A i \in 1..Len(h.admits) : ~StillCounts(h.admits[i], t, cfg),
   due |-> h.due = t,
   seen |-> Len(Recent(h, t, cfg))]

Checked(key, t, th, d, path, hb, op, zb, pre) ==
  [op |-> "check", key |-> key, threw |-> th, decision |-> d, path |-> path,
   at |-> t, hadBlock |-> hb, opens |-> op, zBefore |-> zb, value |-> 0 - 1,
   pre |-> pre, admitted |-> ~th /\ d.allowed, route |-> "none"]

Noted(h, t, cfg, blockSet, d) ==
  [first |-> IF h.n = 0 THEN t ELSE h.first,
   n |-> h.n + 1,
   burst |-> IF cfg.algorithm # "sliding" THEN 0
             ELSE IF h.n = 0 \/ t = h.first THEN h.burst + 1 ELSE h.burst,
   winStart |-> IF cfg.algorithm # "fixed" THEN 0 - 1
                ELSE IF Opens(h, t, cfg) THEN t
                ELSE h.winStart,
   blockAt |-> IF blockSet THEN t ELSE h.blockAt,
   cleared |-> h.cleared,
   admits |-> SelectSeq(h.admits, LAMBDA x : StillCounts(x, t, cfg))
                \o IF d.allowed THEN <<t>> ELSE <<>>,
   due |-> IF d.allowed THEN 0 - 1 ELSE d.resetTime]

\* What clearLimit finds stored for the key.
Stored(k) ==
  IF Has(blockedKeys, k) \/ Has(redis.rate_limit_block, k) THEN "blocked"
  ELSE IF \/ Has(limits, k) \/ Has(fallbackLimits, k)
          \/ Has(redis.rate_limit, k) \/ Has(redis.sliding_rate_limit, k)
       THEN "counting"
  ELSE "idle"

\* A map entry was written with a new value.
Written(old, new, key) ==
  Has(new, key) /\ (~Has(old, key) \/ old[key] # new[key])

\* A caller of checkLimit: `pc` the remote command it issues next, `at` its
\* Date.now(), `count` the count the store returned to it, `member` the
\* member it added to the timestamp set.
Callers == 1..MaxCallers
IdleCall ==
  [pc |-> "idle", key |-> EmptyKey, at |-> 0 - 1, count |-> 0 - 1,
   member |-> <<>>, decision |-> NoDecision]

\* ------------------------------------------------------------ the state machine
Start ==
  /\ now = 0
  /\ config \in Configs
  /\ limits = EmptyMap
  /\ blockedKeys = EmptyMap
  /\ redis = EmptyStore
  /\ fallbackLimits = EmptyMap
  /\ last = Idle("init")
  /\ hist = [k \in Keys |-> FreshHist("no")]
  /\ calls = [c \in Callers |-> IdleCall]
  /\ cleanupInterval = CleanupIntervalMs
  /\ tasks = EmptyMap
  /\ queue = <<>>
  /\ isProcessing = FALSE
  /\ activeTasks = 0
  /\ executing = {}
  /\ backoff = {}
  /\ immediates = 0

\* The remote store answers every call.
Init ==
  /\ Start
  /\ target \in {"memory", "redis"}
  /\ target = "memory" => config.algorithm = "fixed"
  /\ budget = [checks |-> MaxChecks, fails |-> 0, ticks |-> MaxTicks]

\* Up to MaxFails calls of the remote store fail.
InitOutage ==
  /\ Start
  /\ target \in {"memory", "redis"}
  /\ target = "memory" => config.algorithm = "fixed"
  /\ config.windowMs = SecMs
  /\ config.maxRequests <= OutageN
  /\ budget = [checks |-> OutageChecks, fails |-> MaxFails,
               ticks |-> OutageTicks]

\* Time passes; the remote store expires its keys by itself.
Tick ==
  /\ now < budget.ticks * TickMs
  /\ now' = now + TickMs
  /\ redis' = RedisExpire(redis, now + TickMs)
  /\ last' = Idle("tick")
  /\ UNCHANGED <<target, config, limits, blockedKeys, fallbackLimits, hist,
                 budget,
                 calls, cleanupInterval, queueVars>>

MemCheck(key) ==
  /\ target = "memory"
  /\ budget.checks > 0
  /\ budget' = [budget EXCEPT !.checks = @ - 1]
  /\ LET r == MemCheckLimit(key, config, now, limits, blockedKeys)
     IN /\ limits' = r.limits
        /\ blockedKeys' = r.blockedKeys
        /\ last' = Checked(key, now, FALSE, r.decision, "memory",
                           MemIsBlocked(blockedKeys, key, now),
                           Opens(hist[key], now, config), {},
                           Pre(hist[key], now, config))
        /\ hist' = [hist EXCEPT ![key] =
                      Noted(@, now, config,
                            Written(blockedKeys, r.blockedKeys, key),
                            r.decision)]
  /\ UNCHANGED <<now, target, config, redis, fallbackLimits,
                 calls, cleanupInterval, queueVars>>

MemRemaining(key) ==
  /\ target = "memory"
  /\ last' = [Idle("remaining") EXCEPT
                !.key = key, !.at = now,
                !.value = MemGetRemainingRequests(key, config.maxRequests,
                                                  now, limits)]
  /\ UNCHANGED <<now, target, config, limits, blockedKeys, redis,
                 fallbackLimits, hist, budget,
                 calls, cleanupInterval, queueVars>>

MemClear(key) ==
  /\ target = "memory"
  /\ limits' = Del(limits, key)
  /\ blockedKeys' = Del(blockedKeys, key)
  /\ last' = [Idle("clear") EXCEPT !.key = key, !.at = now]
  /\ hist' = [hist EXCEPT ![key] = FreshHist(Stored(key))]
  /\ UNCHANGED <<now, target, config, redis, fallbackLimits, budget,
                 calls, cleanupInterval, queueVars>>

MemCleanup ==
  /\ target = "memory"
  /\ limits' = MemCleanupLimits(limits, now)
  /\ blockedKeys' = MemCleanupBlocks(blockedKeys, now)
  /\ last' = [Idle("cleanup") EXCEPT !.at = now]
  /\ UNCHANGED <<now, target, config, redis, fallbackLimits, hist, budget,
                 calls, cleanupInterval, queueVars>>

RedisCheck(key, f) ==
  /\ target = "redis"
  /\ budget.checks > 0
  /\ f # NoFail => budget.fails > 0
  /\ CanFail(f, key, config)
  /\ LET r == RedisCheckLimit(key, config, now, f, redis, fallbackLimits)
     IN /\ f # NoFail => RemoteAttempt(key, config, now, f, redis).threw
        /\ budget' = [budget EXCEPT
                        !.checks = @ - 1,
                        !.fails = @ - IF f # NoFail THEN 1 ELSE 0]
        /\ redis' = r.redis
        /\ fallbackLimits' = r.fallbackLimits
        /\ last' = Checked(key, now, r.threw, r.decision, r.path,
                           key \in Keys /\ RedisIsBlocked(redis, key),
                           key \in Keys /\ config.algorithm = "fixed"
                             /\ Opens(hist[key], now, config),
                           r.zBefore,
                           IF key \in Keys THEN Pre(hist[key], now, config)
                           ELSE NoPre)
        /\ hist' = IF r.threw THEN hist
                   ELSE [hist EXCEPT ![key] =
                           Noted(@, now, config,
                                 Written(redis.rate_limit_block,
                                         r.redis.rate_limit_block, key),
                                 r.decision)]
  /\ UNCHANGED <<now, target, config, limits, blockedKeys,
                 calls, cleanupInterval, queueVars>>

RedisRemainingCounts(key, fails) ==
  /\ target = "redis"
  /\ fails => budget.fails > 0
  /\ last' = [Idle("remaining") EXCEPT
                !.key = key, !.at = now,
                !.path = IF fails THEN "fallback" ELSE "remote",
                !.value = RedisGetRemainingRequests(
                            key, config.maxRequests, now, fails, redis,
                            fallbackLimits)]
  /\ budget' = [budget EXCEPT !.fails = @ - IF fails THEN 1 ELSE 0]
  /\ redis' = [redis EXCEPT !.rate_limit = RedisIncr(@, key)]
  /\ UNCHANGED <<now, target, config, limits, blockedKeys, fallbackLimits,
                 hist,
                 calls, cleanupInterval, queueVars>>

RedisRemaining(key, fails) ==
  /\ target = "redis"
  /\ fails => budget.fails > 0
  /\ last' = [Idle("remaining") EXCEPT
                !.key = key, !.at = now,
                !.path = IF fails THEN "fallback" ELSE "remote",
                !.value = RedisGetRemainingRequests(
                            key, config.maxRequests, now, fails, redis,
                            fallbackLimits)]
  /\ budget' = [budget EXCEPT !.fails = @ - IF fails THEN 1 ELSE 0]
  /\ UNCHANGED <<now, target, config, limits, blockedKeys, redis,
                 fallbackLimits, hist,
                 calls, cleanupInterval, queueVars>>

\* clearLimit: the pipeline of three DELs may fail after `ran` of them.
RedisClear(key, ran) ==
  /\ target = "redis"
  /\ ran < 3 => budget.fails > 0
  /\ budget' = [budget EXCEPT !.fails = @ - IF ran < 3 THEN 1 ELSE 0]
  /\ redis' = RedisClearLimit(key, ran, redis)
  /\ fallbackLimits' = Del(fallbackLimits, key)
  /\ last' = [Idle("clear") EXCEPT
                !.key = key, !.at = now,
                !.path = IF ran < 3 THEN "fallback" ELSE "remote"]
  /\ hist' = [hist EXCEPT ![key] =
                FreshHist(IF ran = 3 THEN Stored(key) ELSE "no")]
  /\ UNCHANGED <<now, target, config, limits, blockedKeys,
                 calls, cleanupInterval, queueVars>>

\* The five-minute timer of the constructor, or cleanup() called by hand.
RedisCleanup ==
  /\ target = "redis"
  /\ fallbackLimits' = CleanupFallback(fallbackLimits, now)
  /\ last' = [Idle("cleanup") EXCEPT !.at = now]
  /\ UNCHANGED <<now, target, config, limits, blockedKeys, redis, hist,
                 budget,
                 calls, cleanupInterval, queueVars>>

Next ==
  \/ Tick
  \/ \E key \in Keys : MemCheck(key)
  \/ \E key \in Keys : MemRemaining(key)
  \/ \E key \in Keys : MemClear(key)
  \/ MemCleanup
  \/ \E key \in Keys \cup {EmptyKey}, f \in Fails : RedisCheck(key, f)
  \/ \E key \in Keys, fails \in BOOLEAN : RedisRemaining(key, fails)
  \/ \E key \in Keys, ran \in 0..3 : RedisClear(key, ran)
  \/ RedisCleanup

Spec == Init /\ [][Next]_vars
SpecOutage == InitOutage /\ [][Next]_vars

\* ------------------------------------------- remote path and fallback path
\* Two instances of RedisRateLimitService get the same requests, both from
\* empty state.  The store of the first answers every call (`redis`); the
\* store of the second fails at the first call of every check, so that the
\* second instance decides from its local map (`fallbackLimits`).
InitTwin ==
  /\ Start
  /\ target = "twin"
  /\ budget = [checks |-> MaxChecks, fails |-> 0, ticks |-> MaxTicks]

FirstCallFails == [call |-> "get", done |-> 0]

TwinCheck(key) ==
  /\ target = "twin"
  /\ budget.checks > 0
  /\ budget' = [budget EXCEPT !.checks = @ - 1]
  /\ LET a == RedisCheckLimit(key, config, now, NoFail, redis, EmptyMap)
         b == RedisCheckLimit(key, config, now, FirstCallFails, EmptyStore,
                              fallbackLimits)
     IN /\ redis' = a.redis
        /\ fallbackLimits' = b.fallbackLimits
        /\ last' = Checked(key, now, b.threw, b.decision, b.path, FALSE,
                           FALSE, {}, NoPre)
  /\ UNCHANGED <<now, target, config, limits, blockedKeys, hist,
                 calls, cleanupInterval, queueVars>>

NextTwin ==
  \/ Tick
  \/ \E key \in Keys : TwinCheck(key)

SpecFallback == InitTwin /\ [][NextTwin]_vars

\* ------------------------------------------------------ concurrent callers
\* Callers on connections of their own check one key at the same time.  Each
\* command of a caller is one step of the store; commands of other callers
\* may come between two commands of one caller, those of a pipeline
\* included (a pipeline is no MULTI/EXEC transaction).  checkLimit of the
\* in-memory service holds no await and runs as one step.
InitConcurrent ==
  /\ Start
  /\ target \in {"memory", "redis"}
  /\ target = "memory" => config.algorithm = "fixed"
  /\ config.windowMs = SecMs
  /\ config.maxRequests \in 1..(MaxCallers - 1)
  /\ budget = [checks |-> 0, fails |-> 0, ticks |-> OutageTicks]

At(c, pc) == calls[c].pc = pc

\* The caller goes on to its next command.
Goes(c, pc) == calls' = [calls EXCEPT ![c].pc = pc]

\* The caller returns decision d.
Returns(c, d) == calls' = [calls EXCEPT ![c].pc = "done", ![c].decision = d]

\* The denial of an over-quota check: resetTime is the caller's now + windowMs.
Denial(c) ==
  Decision(FALSE, 0, calls[c].at + config.windowMs, HasPenalty(config))

\* `const now = Date.now()`, then the GET of the block key is sent.
Begin(c, key) ==
  /\ target = "redis"
  /\ At(c, "idle")
  /\ ~InvalidKey(key) /\ ~InvalidConfig(config)
  /\ calls' = [calls EXCEPT ![c] =
                 [IdleCall EXCEPT !.pc = "get", !.key = key, !.at = now]]
  /\ UNCHANGED <<now, target, config, limits, blockedKeys, redis,
                 fallbackLimits, last, hist, budget,
                 cleanupInterval, queueVars>>

\* `await this.redis.get(blockKey)`
Get(c) ==
  /\ At(c, "get")
  /\ Goes(c, IF RedisIsBlocked(redis, calls[c].key) THEN "ttl"
             ELSE IF config.algorithm = "sliding" THEN "zremrangebyscore"
             ELSE "incr")
  /\ UNCHANGED <<now, target, config, limits, blockedKeys, redis,
                 fallbackLimits, last, hist, budget,
                 cleanupInterval, queueVars>>

\* `await this.redis.ttl(blockKey)` and the blocked decision
Ttl(c) ==
  /\ At(c, "ttl")
  /\ Returns(c, Decision(FALSE, 0,
                         calls[c].at
                           + RedisTtl(redis.rate_limit_block, calls[c].key,
                                      now) * SecMs,
                         TRUE))
  /\ UNCHANGED <<now, target, config, limits, blockedKeys, redis,
                 fallbackLimits, last, hist, budget,
                 cleanupInterval, queueVars>>

\* `pipeline.incr(windowKey)`
Incr(c) ==
  /\ At(c, "incr")
  /\ LET m == RedisIncr(redis.rate_limit, calls[c].key)
     IN /\ redis' = [redis EXCEPT !.rate_limit = m]
        /\ calls' = [calls EXCEPT ![c].pc = "expire",
                                  ![c].count = m[calls[c].key].value]
  /\ UNCHANGED <<now, target, config, limits, blockedKeys, fallbackLimits,
                 last, hist, budget,
                 cleanupInterval, queueVars>>

\* `pipeline.expire(windowKey, ...)`, then the comparison of the count
Expire(c) ==
  /\ At(c, "expire")
  /\ redis' = [redis EXCEPT !.rate_limit =
                 RedisExpireCmd(@, calls[c].key,
                                CeilSeconds(config.windowMs), now)]
  /\ IF FixedOverQuota(calls[c].count, config)
     THEN IF HasPenalty(config) THEN Goes(c, "setex")
          ELSE Returns(c, Denial(c))
     ELSE Returns(c, Decision(TRUE, config.maxRequests - calls[c].count,
                              calls[c].at + config.windowMs, FALSE))
  /\ UNCHANGED <<now, target, config, limits, blockedKeys, fallbackLimits,
                 last, hist, budget,
                 cleanupInterval, queueVars>>

\* `pipeline.zremrangebyscore(windowKey, 0, windowStart)`
Zremrangebyscore(c) ==
  /\ At(c, "zremrangebyscore")
  /\ redis' = [redis EXCEPT !.sliding_rate_limit =
                 RedisZremrangebyscore(@, calls[c].key, 0,
                                       calls[c].at - config.windowMs)]
  /\ Goes(c, "zcard")
  /\ UNCHANGED <<now, target, config, limits, blockedKeys, fallbackLimits,
                 last, hist, budget,
                 cleanupInterval, queueVars>>

\* `pipeline.zcard(windowKey)`
Zcard(c) ==
  /\ At(c, "zcard")
  /\ calls' = [calls EXCEPT
                 ![c].pc = "zadd",
                 ![c].count = RedisZcard(redis.sliding_rate_limit,
                                         calls[c].key)]
  /\ UNCHANGED <<now, target, config, limits, blockedKeys, redis,
                 fallbackLimits, last, hist, budget,
                 cleanupInterval, queueVars>>

\* `pipeline.zadd(windowKey, now, member)`
Zadd(c) ==
  /\ At(c, "zadd")
  /\ LET member == InsertedMember(calls[c].at,
                                  Members(redis.sliding_rate_limit,
                                          calls[c].key))
     IN /\ redis' = [redis EXCEPT !.sliding_rate_limit =
                       RedisZadd(@, calls[c].key, calls[c].at, member)]
        /\ calls' = [calls EXCEPT ![c].pc = "zexpire",
                                  ![c].member = member]
  /\ UNCHANGED <<now, target, config, limits, blockedKeys, fallbackLimits,
                 last, hist, budget,
                 cleanupInterval, queueVars>>

\* `pipeline.expire(windowKey, ...)` of the sliding window, then the
\* comparison of the count
Zexpire(c) ==
  /\ At(c, "zexpire")
  /\ redis' = [redis EXCEPT !.sliding_rate_limit =
                 RedisExpireCmd(@, calls[c].key,
                                CeilSeconds(config.windowMs), now)]
  /\ IF SlidingOverQuota(calls[c].count, config)
     THEN Goes(c, "zrem")
     ELSE Returns(c, Decision(TRUE, config.maxRequests - calls[c].count - 1,
                              calls[c].at + config.windowMs, FALSE))
  /\ UNCHANGED <<now, target, config, limits, blockedKeys, fallbackLimits,
                 last, hist, budget,
                 cleanupInterval, queueVars>>

\* `await this.redis.zrem(windowKey, ...)` of a denied check
Zrem(c) ==
  /\ At(c, "zrem")
  /\ redis' = [redis EXCEPT !.sliding_rate_limit =
                 RedisZrem(@, calls[c].key,
                           RemovedMember(calls[c].at,
                                         Members(@, calls[c].key),
                                         calls[c].member))]
  /\ IF HasPenalty(config) THEN Goes(c, "setex")
     ELSE Returns(c, Denial(c))
  /\ UNCHANGED <<now, target, config, limits, blockedKeys, fallbackLimits,
                 last, hist, budget,
                 cleanupInterval, queueVars>>

\* `await this.redis.setex(blockKey, ...)` and the denial
Setex(c) ==
  /\ At(c, "setex")
  /\ redis' = [redis EXCEPT !.rate_limit_block =
                 RedisSetex(@, calls[c].key,
                            CeilSeconds(config.blockDurationMs), now)]
  /\ Returns(c, Denial(c))
  /\ UNCHANGED <<now, target, config, limits, blockedKeys, fallbackLimits,
                 last, hist, budget,
                 cleanupInterval, queueVars>>

\* checkLimit of the in-memory service, from call to return.
MemCall(c, key) ==
  /\ target = "memory"
  /\ At(c, "idle")
  /\ LET r == MemCheckLimit(key, config, now, limits, blockedKeys)
     IN /\ limits' = r.limits
        /\ blockedKeys' = r.blockedKeys
        /\ calls' = [calls EXCEPT ![c] =
                       [IdleCall EXCEPT
                          !.pc = "done", !.key = key, !.at = now,
                          !.count = IF r.decision.allowed
                                    THEN r.limits[key].count ELSE 0 - 1,
                          !.decision = r.decision]]
  /\ UNCHANGED <<now, target, config, redis, fallbackLimits, last, hist,
                 budget,
                 cleanupInterval, queueVars>>

NextConcurrent ==
  \/ Tick
  \/ \E c \in Callers, key \in Keys : Begin(c, key)
  \/ \E c \in Callers : Get(c)
  \/ \E c \in Callers : Ttl(c)
  \/ \E c \in Callers : Incr(c)
  \/ \E c \in Callers : Expire(c)
  \/ \E c \in Callers : Zremrangebyscore(c)
  \/ \E c \in Callers : Zcard(c)
  \/ \E c \in Callers : Zadd(c)
  \/ \E c \in Callers : Zexpire(c)
  \/ \E c \in Callers : Zrem(c)
  \/ \E c \in Callers : Setex(c)
  \/ \E c \in Callers, key \in Keys : MemCall(c, key)

SpecConcurrent == InitConcurrent /\ [][NextConcurrent]_vars

\* Checks of a blocked key while an administrator clears the key:
\* clearLimit may come between two commands of a check.
InitRace ==
  /\ Start
  /\ target = "redis"
  /\ config.windowMs = SecMs
  /\ config.maxRequests = 1
  /\ HasPenalty(config)
  /\ budget = [checks |-> 0, fails |-> 0, ticks |-> OutageTicks]

\* clearLimit of another client: its three DELs reach the store together.
ClearCall(key) ==
  /\ \E c \in Callers : ~At(c, "idle") /\ ~At(c, "done")
  /\ Stored(key) # "idle"
  /\ redis' = RedisClearLimit(key, 3, redis)
  /\ fallbackLimits' = Del(fallbackLimits, key)
  /\ UNCHANGED <<now, target, config, limits, blockedKeys, last, hist,
                 budget, calls, cleanupInterval, queueVars>>

NextRace ==
  \/ Tick
  \/ \E key \in Keys : ClearCall(key)
  \/ \E c \in Callers, key \in Keys : Begin(c, key)
  \/ \E c \in Callers : Get(c)
  \/ \E c \in Callers : Ttl(c)
  \/ \E c \in Callers : Incr(c)
  \/ \E c \in Callers : Expire(c)
  \/ \E c \in Callers : Zremrangebyscore(c)
  \/ \E c \in Callers : Zcard(c)
  \/ \E c \in Callers : Zadd(c)
  \/ \E c \in Callers : Zexpire(c)
  \/ \E c \in Callers : Zrem(c)
  \/ \E c \in Callers : Setex(c)

SpecRace == InitRace /\ [][NextRace]_vars

\* ------------------------------------------------------------ housekeeping
\* Hours of operation: the clock passes the firings of the sweep timer the
\* constructor of RedisRateLimitService sets.  Both services are providers
\* of the module, so the timer runs whichever service the callers use;
\* RateLimitService sets no timer of its own.
InitSweep ==
  /\ Start
  /\ target \in {"memory", "redis"}
  /\ target = "memory" => config.algorithm = "fixed"
  /\ config.windowMs = SecMs
  /\ config.maxRequests \in 1..OutageN
  /\ budget = [checks |-> OutageChecks, fails |-> MaxFails,
               ticks |-> SweepTicks]

\* The last instant of a behaviour.
SweepHorizon == MaxSweeps * CleanupIntervalMs + CleanupIntervalMs \div 2

\* Time passes by d ms, not beyond the next firing of the timer: a timer
\* that is due fires before the clock goes on.
Pass(d) ==
  /\ d > 0
  /\ d = TickMs => now < budget.ticks * TickMs
  /\ now + d <= cleanupInterval
  /\ now + d <= SweepHorizon
  /\ now' = now + d
  /\ redis' = RedisExpire(redis, now + d)
  /\ last' = Idle("tick")
  /\ UNCHANGED <<target, config, limits, blockedKeys, fallbackLimits, hist,
                 budget, calls, cleanupInterval, queueVars>>

\* `setInterval(() => { this.cleanupFallback(); }, 5 * 60 * 1000)`
IntervalSweep ==
  /\ now = cleanupInterval
  /\ fallbackLimits' = CleanupFallback(fallbackLimits, now)
  /\ cleanupInterval' = cleanupInterval + CleanupIntervalMs
  /\ last' = [Idle("cleanup") EXCEPT !.at = now, !.path = "timer"]
  /\ UNCHANGED <<now, target, config, limits, blockedKeys, redis, hist,
                 budget, calls, queueVars>>

NextSweep ==
  \/ \E d \in {TickMs, CleanupIntervalMs \div 2, cleanupInterval - now} :
       Pass(d)
  \/ IntervalSweep
  \/ \E key \in Keys : MemCheck(key)
  \/ MemCleanup
  \/ \E key \in Keys, f \in {NoFail, FirstCallFails} : RedisCheck(key, f)
  \/ RedisCleanup

SpecSweep == InitSweep /\ [][NextSweep]_vars

\* --------------------------------------------------------- TaskQueueService
\* `private readonly maxConcurrentTasks = 3`
maxConcurrentTasks == 3

TaskIds == 1..MaxTasks
\* `priority: number = 3`; callers may name another one (1 = highest).
DefaultPriority == 3
Priorities == {1, DefaultPriority}
\* The priorities tasks are added with: the default one, and for the task
\* of the first id an urgent one as well.
PrioritiesOf(id) == IF id = 1 THEN Priorities ELSE {DefaultPriority}

\* The state of the rate limiters, which the task queue leaves alone.
rateVars ==
  <<now, target, config, limits, blockedKeys, redis, fallbackLimits, last,
    hist, budget, calls, cleanupInterval>>

\* The fields of the service a handler works on.
QueueState(ts, q, active, exe, imm) ==
  [tasks |-> ts, queue |-> q, activeTasks |-> active, executing |-> exe,
   immediates |-> imm]

\* Array.prototype.sort with `(a, b) => a.priority - b.priority` is stable:
\* x goes behind the elements whose priority is not greater than its own.
RECURSIVE InsertByPriority(_, _, _)
InsertByPriority(ts, sorted, x) ==
  IF sorted = <<>> THEN <<x>>
  ELSE IF ts[Head(sorted)].priority <= ts[x].priority
  THEN <<Head(sorted)>> \o InsertByPriority(ts, Tail(sorted), x)
  ELSE <<x>> \o sorted

RECURSIVE SortByPriority(_, _, _)
SortByPriority(ts, sorted, rest) ==
  IF rest = <<>> THEN sorted
  ELSE SortByPriority(ts, InsertByPriority(ts, sorted, Head(rest)),
                      Tail(rest))

\* `this.queue.push(task); this.queue.sort(...)`
Pushed(ts, q, id) == SortByPriority(ts, <<>>, Append(q, id))

\* processTask up to its first await: the task runs.
StartTask(s, id) ==
  QueueState([s.tasks EXCEPT ![id].status = "processing",
                             ![id].attempts = @ + 1],
             Tail(s.queue), s.activeTasks + 1, s.executing \cup {id},
             s.immediates)

\* The loop of processQueue with no limit on the running tasks.
RECURSIVE DrainUncapped(_)
DrainUncapped(s) ==
  IF Len(s.queue) > 0
  THEN DrainUncapped(StartTask(s, Head(s.queue)))
  ELSE s

\* `while (this.queue.length > 0 && this.activeTasks < maxConcurrentTasks)`
RECURSIVE Drain(_)
Drain(s) ==
  IF Len(s.queue) > 0 /\ s.activeTasks < maxConcurrentTasks
  THEN Drain(StartTask(s, Head(s.queue)))
  ELSE s

\* What follows the loop: `setImmediate(() => this.processQueue())` when
\* tasks wait and a slot is free.
Continued(s) ==
  IF Len(s.queue) > 0 /\ s.activeTasks < maxConcurrentTasks
  THEN [s EXCEPT !.immediates = @ + 1]
  ELSE s

\* processQueue, which runs without an await; `busy` is isProcessing.
ProcessQueue(busy, s) ==
  IF busy \/ s.activeTasks >= maxConcurrentTasks THEN s
  ELSE Continued(Drain(s))

\* `if (!this.isProcessing) { this.processQueue(); }`
Kicked(busy, s) == IF ~busy THEN ProcessQueue(busy, s) ELSE s

\* The handler leaves the service in state s.
Becomes(s) ==
  /\ tasks' = s.tasks
  /\ queue' = s.queue
  /\ activeTasks' = s.activeTasks
  /\ executing' = s.executing
  /\ immediates' = s.immediates

InitQueue ==
  /\ Start
  /\ target = "queue"
  /\ config = [windowMs |-> SecMs, maxRequests |-> 1, blockDurationMs |-> 0,
               algorithm |-> "fixed"]
  /\ budget = [checks |-> 0, fails |-> 0, ticks |-> 0]

\* addTask: generateTaskId gives an id no task of the map has.
AddTask(id, priority, maxAttempts) ==
  /\ id \notin DOMAIN tasks
  /\ \A x \in TaskIds : x < id => x \in DOMAIN tasks
  /\ LET ts == Put(tasks, id,
                   [priority |-> priority, attempts |-> 0,
                    maxAttempts |-> maxAttempts, status |-> "pending"])
     IN Becomes(Kicked(isProcessing,
                       QueueState(ts, Pushed(ts, queue, id), activeTasks,
                                  executing, immediates)))
  /\ UNCHANGED <<rateVars, isProcessing, backoff>>

\* retryTask of a failed task; for any other task it returns false.
RetryTask(id) ==
  /\ id \in DOMAIN tasks
  /\ tasks[id].status = "failed"
  /\ LET ts == [tasks EXCEPT ![id].status = "pending", ![id].attempts = 0]
     IN Becomes(Kicked(isProcessing,
                       QueueState(ts, Pushed(ts, queue, id), activeTasks,
                                  executing, immediates)))
  /\ UNCHANGED <<rateVars, isProcessing, backoff>>

\* cancelTask of a task that is not processing.
CancelTask(id) ==
  /\ id \in DOMAIN tasks
  /\ tasks[id].status # "processing"
  /\ queue' = SelectSeq(queue, LAMBDA x : x # id)
  /\ tasks' = Del(tasks, id)
  /\ UNCHANGED <<rateVars, isProcessing, activeTasks, executing, backoff,
                 immediates>>

\* executeTask resolves: the task is completed, `finally` frees its slot.
Complete(id) ==
  /\ id \in executing
  /\ tasks' = [tasks EXCEPT ![id].status = "completed"]
  /\ executing' = executing \ {id}
  /\ activeTasks' = activeTasks - 1
  /\ UNCHANGED <<rateVars, queue, isProcessing, backoff, immediates>>

\* executeTask rejects: the task has failed for good, or a retry timer is
\* set; `finally` frees its slot.
Fail(id) ==
  /\ id \in executing
  /\ IF tasks[id].attempts >= tasks[id].maxAttempts
     THEN /\ tasks' = [tasks EXCEPT ![id].status = "failed"]
          /\ backoff' = backoff
     ELSE /\ tasks' = tasks
          /\ backoff' = backoff \cup {id}
  /\ executing' = executing \ {id}
  /\ activeTasks' = activeTasks - 1
  /\ UNCHANGED <<rateVars, queue, isProcessing, immediates>>

\* The callback of the retry setTimeout.
BackoffTimer(id) ==
  /\ id \in backoff
  /\ backoff' = backoff \ {id}
  /\ LET ts == [tasks EXCEPT ![id].status = "pending"]
     IN Becomes(Kicked(isProcessing,
                       QueueState(ts, Pushed(ts, queue, id), activeTasks,
                                  executing, immediates)))
  /\ UNCHANGED <<rateVars, isProcessing>>

\* The loop of processQueue ends with the queue empty or no slot free, so
\* the condition of setImmediate never holds after it: no callback is ever
\* scheduled and none is a step of the machine.
NoImmediate == immediates = 0

\* What the event loop does by itself: executions end, timers fire.
Runs(id) == Complete(id) \/ Fail(id) \/ BackoffTimer(id)

NextQueue ==
  \/ \E id \in TaskIds : \E priority \in PrioritiesOf(id) :
       AddTask(id, priority, MaxAttempts)
  \/ \E id \in TaskIds : RetryTask(id)
  \/ \E id \in TaskIds : CancelTask(id)
  \/ \E id \in TaskIds : Complete(id)
  \/ \E id \in TaskIds : Fail(id)
  \/ \E id \in TaskIds : BackoffTimer(id)

\* Every execution terminates and every timer that is set fires.
SpecQueue ==
  /\ InitQueue
  /\ [][NextQueue]_vars
  /\ \A id \in TaskIds : WF_vars(Runs(id))

\* ------------------------------------------------- requests through the guard
\* The routes of the deployment are guarded by one of the two guards; one
\* route carries the policy `config`, another carries no rate-limit options.
InitGuard ==
  /\ Start
  /\ target \in {"guard", "memoryGuard"}
  /\ target = "memoryGuard" => config.algorithm = "fixed"
  /\ config.maxRequests <= OutageN
  /\ budget = [checks |-> OutageChecks, fails |-> MaxFails,
               ticks |-> OutageTicks]

Guarded(g, key, registered) ==
  [Idle("guard") EXCEPT
     !.key = key, !.at = now, !.threw = g.threw, !.decision = g.decision,
     !.path = g.path, !.admitted = g.admitted,
     !.route = IF registered THEN "limited" ELSE "open"]

\* The guard's answer `g` takes effect.
Served(g, key, registered) ==
  /\ redis' = g.redis
  /\ fallbackLimits' = g.fallbackLimits
  /\ limits' = g.limits
  /\ blockedKeys' = g.blockedKeys
  /\ last' = Guarded(g, key, registered)

GuardRequest(registered, skip, key, f) ==
  /\ target = "guard"
  /\ budget.checks > 0
  /\ f # NoFail =>
       /\ registered /\ ~skip
       /\ budget.fails > 0
       /\ CanFail(f, key, config)
       /\ RemoteAttempt(key, config, now, f, redis).threw
  /\ Served(CanActivate(registered, skip, key, config, now, f, redis,
                        fallbackLimits, limits, blockedKeys),
            key, registered)
  /\ budget' = [budget EXCEPT
                  !.checks = @ - 1,
                  !.fails = @ - IF f # NoFail THEN 1 ELSE 0]
  /\ UNCHANGED <<now, target, config, hist,
                 calls, cleanupInterval, queueVars>>

MemoryGuardRequest(registered, skip, key) ==
  /\ target = "memoryGuard"
  /\ budget.checks > 0
  /\ Served(CanActivateMemory(registered, skip, key, config, now, redis,
                              fallbackLimits, limits, blockedKeys),
            key, registered)
  /\ budget' = [budget EXCEPT !.checks = @ - 1]
  /\ UNCHANGED <<now, target, config, hist,
                 calls, cleanupInterval, queueVars>>

NextGuard ==
  \/ Tick
  \/ \E registered \in BOOLEAN, skip \in BOOLEAN,
        key \in Keys \cup {EmptyKey}, f \in Fails :
        GuardRequest(registered, skip, key, f)
  \/ \E registered \in BOOLEAN, skip \in BOOLEAN,
        key \in Keys \cup {EmptyKey} :
        MemoryGuardRequest(registered, skip, key)

SpecGuard == InitGuard /\ [][NextGuard]_vars

\* ---------------------------------------------------------------- properties
\* The last call was a check of key k that returned a decision.
Decided(k) == last.op = "check" /\ last.key = k /\ ~last.threw

\* C1: with maxRequests = N >= 1 and no penalty, the first N checks of a
\* fresh key made within one window are allowed, and the (N+1)-th check in
\* that window is denied with remainingRequests = 0 and blocked = false
\* (in-memory service, remote fixed window and remote sliding window).
C1_QuotaPerWindow ==
  \A k \in Keys :
    (/\ Decided(k)
     /\ last.path \in {"memory", "remote"}
     /\ config.maxRequests >= 1
     /\ ~HasPenalty(config)
     /\ last.at < hist[k].first + config.windowMs)
    => /\ hist[k].n <= config.maxRequests => last.decision.allowed
       /\ hist[k].n = config.maxRequests + 1 =>
            /\ ~last.decision.allowed
            /\ last.decision.remainingRequests = 0
            /\ ~last.decision.blocked

C1_Witness ==
  \E k \in Keys :
    /\ Decided(k)
    /\ target = "redis"
    /\ config.algorithm = "sliding"
    /\ config.maxRequests = 2
    /\ ~HasPenalty(config)
    /\ hist[k].n = 3
    /\ hist[k].first < last.at
    /\ last.at < hist[k].first + config.windowMs
    /\ ~last.decision.allowed

\* C2: once a check has set a block with penaltyDurationMs = P at time t,
\* every check of the key answered by the in-memory service or by the remote
\* store at a time before t + P is denied with blocked = true, also after the
\* counting window has ended.
C2_PenaltyOutlastsWindow ==
  \A k \in Keys :
    (/\ Decided(k)
     /\ last.path \in {"memory", "remote"}
     /\ HasPenalty(config)
     /\ hist[k].blockAt >= 0
     /\ last.at < hist[k].blockAt + config.blockDurationMs)
    => ~last.decision.allowed /\ last.decision.blocked

C2_Witness ==
  \E k \in Keys :
    /\ Decided(k)
    /\ target = "redis"
    /\ config.blockDurationMs > config.windowMs
    /\ hist[k].blockAt >= 0
    /\ hist[k].blockAt < last.at
    /\ last.at >= hist[k].first + config.windowMs
    /\ last.at < hist[k].blockAt + config.blockDurationMs
    /\ last.decision.blocked

\* C3: while an unexpired block entry exists for a key, every check of the
\* key is denied with blocked = true, on every decision path, the local
\* fallback of the remote-backed service included.
C3_BlockPrecedence ==
  \A k \in Keys :
    (Decided(k) /\ last.hadBlock)
    => ~last.decision.allowed /\ last.decision.blocked

\* C4: for a non-empty key and a valid policy, checkLimit of the
\* remote-backed service never throws: whichever remote call fails, and
\* however many failed before, it returns a decision with remainingRequests
\* in 0..maxRequests, and an allowed decision is not blocked.
C4_AlwaysDecides ==
  (/\ last.op = "check"
   /\ target = "redis"
   /\ last.key \in Keys
   /\ ~InvalidConfig(config))
  => /\ ~last.threw
     /\ last.path \in {"remote", "fallback"}
     /\ last.decision.remainingRequests \in 0..config.maxRequests
     /\ last.decision.allowed => ~last.decision.blocked

\* A second failing check in a row: the local count of the first one has
\* used up the quota.
C4_Witness ==
  \E k \in Keys :
    /\ Decided(k)
    /\ last.path = "fallback"
    /\ ~last.decision.allowed
    /\ budget.fails = 0

\* C5: under the fixed window the counter resets at windowStart + windowMs,
\* windowStart being the first request of the window: the first request made
\* at or after that time is allowed, whatever arrived during the window
\* (in-memory service and remote fixed window, policy without penalty).
C5_FixedWindowResets ==
  \A k \in Keys :
    (/\ Decided(k)
     /\ last.path \in {"memory", "remote"}
     /\ config.algorithm = "fixed"
     /\ config.maxRequests >= 1
     /\ ~HasPenalty(config)
     /\ last.opens)
    => last.decision.allowed

\* C6: under the sliding window, after maxRequests checks of a fresh key at
\* one time t0, the next check is denied when made less than windowMs after
\* t0 and allowed when made more than windowMs after t0.
C6_SlidingTrailingWindow ==
  \A k \in Keys :
    (/\ Decided(k)
     /\ last.path = "remote"
     /\ config.algorithm = "sliding"
     /\ hist[k].n = config.maxRequests + 1
     /\ hist[k].burst >= config.maxRequests)
    => /\ last.at < hist[k].first + config.windowMs
            => ~last.decision.allowed
       /\ last.at > hist[k].first + config.windowMs
            => last.decision.allowed

\* The quota was filled at t0, and the next check comes after the window
\* while the timestamp set of the key still exists.
C6_Witness ==
  \E k \in Keys :
    /\ Decided(k)
    /\ last.path = "remote"
    /\ config.algorithm = "sliding"
    /\ config.maxRequests = 2
    /\ hist[k].n = 3
    /\ hist[k].burst = 2
    /\ last.zBefore = {}
    /\ last.at > hist[k].first + config.windowMs
    /\ last.at < hist[k].first + CeilSeconds(config.windowMs) * SecMs
    /\ last.decision.allowed

Absent(k) ==
  /\ ~Has(limits, k)
  /\ ~Has(blockedKeys, k)
  /\ ~Has(fallbackLimits, k)
  /\ ~Has(redis.rate_limit, k)
  /\ ~Has(redis.sliding_rate_limit, k)
  /\ ~Has(redis.rate_limit_block, k)

C8_RemainingReadOnly ==
  [][last'.op = "remaining"
       => UNCHANGED <<limits, blockedKeys, redis, fallbackLimits>>]_vars

C8_Witness ==
  \E k \in Keys :
    /\ last.op = "remaining"
    /\ last.key = k
    /\ last.path = "fallback"
    /\ Has(redis.rate_limit, k)
    /\ Has(fallbackLimits, k)
    /\ last.value < config.maxRequests

\* C9: a denied check does not increment the durable counter: the stored
\* count of the fixed window never rises above the value reached by the
\* request that first exceeded the quota (maxRequests in the in-memory
\* service, maxRequests + 1 in the remote store).
C9_DeniedDoesNotCount ==
  \A k \in Keys :
    config.maxRequests >= 1
    => /\ Has(limits, k) => limits[k].count <= config.maxRequests
       /\ Has(redis.rate_limit, k)
            => redis.rate_limit[k].value <= config.maxRequests + 1

\* C10: after a sliding-window check denied because the pre-insert count is
\* >= maxRequests, the timestamp set has exactly the members it had before
\* the insert.
C10_DeniedInsertRetracted ==
  \A k \in Keys :
    (/\ Decided(k)
     /\ last.path = "remote"
     /\ config.algorithm = "sliding"
     /\ ~last.hadBlock
     /\ ~last.decision.allowed)
    => Members(redis.sliding_rate_limit, k) = last.zBefore

\* C11: for a policy without penalty, denied checks do not extend the
\* lockout: a check made at least windowMs (rounded up to whole seconds, the
\* lifetime of the remote keys) after the last allowed check of the key is
\* allowed, however many denied checks were made in between (fixed and
\* sliding algorithm).
C11_NoLockoutExtension ==
  \A k \in Keys :
    (/\ Decided(k)
     /\ last.path \in {"memory", "remote"}
     /\ config.maxRequests >= 1
     /\ ~HasPenalty(config)
     /\ last.pre.quiet)
    => last.decision.allowed

\* The time until which the key is blocked.
BlockedUntil(k) ==
  IF Has(blockedKeys, k) THEN blockedKeys[k]
  ELSE IF Has(redis.rate_limit_block, k)
       THEN redis.rate_limit_block[k].expireAt
  ELSE 0 - 1

\* C15: every decision with blocked = true carries resetTime equal to the
\* key's blockedUntil, the decision of the check that sets the block included.
C15_BlockedResetIsBlockedUntil ==
  \A k \in Keys :
    (/\ Decided(k)
     /\ last.path \in {"memory", "remote"}
     /\ ~InvalidConfig(config)
     /\ last.decision.blocked)
    => last.decision.resetTime = BlockedUntil(k)

\* C16: when a check is denied with resetTime r and the next check of the
\* key is made at time r, that check is allowed.
C16_ResetTimeIsAdmission ==
  \A k \in Keys :
    (/\ Decided(k)
     /\ last.path \in {"memory", "remote"}
     /\ ~InvalidConfig(config)
     /\ last.pre.due)
    => last.decision.allowed

\* C17: in every allowed decision remainingRequests is non-negative and equals
\* maxRequests minus the number of checks allowed in the current window
\* (fixed) or in the trailing windowMs (sliding), the decided one included;
\* denied checks do not reduce it.
C17_RemainingCountsAdmitted ==
  \A k \in Keys :
    (/\ Decided(k)
     /\ last.path \in {"memory", "remote"}
     /\ ~InvalidConfig(config)
     /\ last.decision.allowed)
    => /\ last.decision.remainingRequests >= 0
       /\ last.decision.remainingRequests =
            config.maxRequests - (last.pre.seen + 1)

\* C18: checkLimit of the remote-backed service called with an empty key, or
\* with windowMs <= 0 or maxRequests <= 0, fails with an error and returns no
\* decision, and no remote key, block or local entry is created or changed.
C18_InvalidInputFailsFast ==
  [][(/\ last'.op = "check"
      /\ target = "redis"
      /\ InvalidKey(last'.key) \/ InvalidConfig(config))
     => /\ last'.threw
        /\ last'.decision = NoDecision
        /\ UNCHANGED <<limits, blockedKeys, redis, fallbackLimits>>]_vars

\* A check with the empty key of a valid policy whose key k has a counter.
C18_Witness ==
  \E k \in Keys :
    /\ last.op = "check"
    /\ last.key = EmptyKey
    /\ last.threw
    /\ ~InvalidConfig(config)
    /\ Has(redis.rate_limit, k) \/ Has(redis.sliding_rate_limit, k)

\* C14: when the remote store fails, the local fallback decides as the
\* policy's own algorithm would: from empty state and for the same timed
\* requests, each fallback decision equals the decision the remote-backed
\* algorithm takes on a store that started empty.
C14_FallbackEquivalent ==
  [][(/\ target = "twin"
      /\ last'.op = "check"
      /\ last'.path = "fallback")
     => last'.decision =
          RedisCheckLimit(last'.key, config, now, NoFail, redis,
                          EmptyMap).decision]_vars

\* C19: a configuration error of the admission check propagates to the
\* caller of the guard: for a route whose policy has maxRequests <= 0 or
\* windowMs <= 0, canActivate fails with that error; it neither admits the
\* request nor answers it with a decision of the in-memory service.
C19_ConfigErrorPropagates ==
  (/\ last.op = "guard"
   /\ target = "guard"
   /\ last.route = "limited"
   /\ last.path # "skipped"
   /\ InvalidConfig(config))
  => /\ last.threw
     /\ ~last.admitted
     /\ last.path # "memory"

\* C20: a request to a route without a rate-limit policy is always admitted
\* by the guard, and admitting it changes no counter, block or fallback
\* state.
C20_OpenRouteAdmitted ==
  [][(last'.op = "guard" /\ last'.route = "open")
     => /\ last'.admitted
        /\ ~last'.threw
        /\ UNCHANGED <<limits, blockedKeys, redis, fallbackLimits>>]_vars

\* A request to the open route while the quota of the limited route is used
\* up for the same key.
C20_Witness ==
  \E k \in Keys :
    /\ last.op = "guard"
    /\ last.route = "open"
    /\ last.key = k
    /\ last.admitted
    /\ ~InvalidConfig(config)
    /\ \/ Has(redis.rate_limit, k)
          /\ redis.rate_limit[k].value >= config.maxRequests
       \/ Has(limits, k) /\ limits[k].count >= config.maxRequests

\* The checks of key k that have begun.
Begun(k) == {c \in Callers : ~At(c, "idle") /\ calls[c].key = k}

\* All checks that have begun lie within one window of the policy.
OneWindow ==
  \A c \in Callers : ~At(c, "idle") => now < calls[c].at + config.windowMs

\* The checks of key k that have obtained a count from the store: the
\* post-increment value of the fixed counter, or the size of the trailing
\* window before the insert.
Counted(k) == {c \in Begun(k) : calls[c].count >= 0}

\* The checks of key k that returned an allowed decision.
Allowed(k) ==
  {c \in Begun(k) : At(c, "done") /\ calls[c].decision.allowed}

\* C12: of concurrent fixed-window checks of one key within one window no
\* two obtain the same post-increment count, and at most maxRequests of them
\* are allowed (remote store shared by the callers, and in-memory service).
C12_FixedCountsDistinct ==
  (config.algorithm = "fixed" /\ OneWindow)
  => \A k \in Keys :
       /\ \A c, d \in Counted(k) : c # d => calls[c].count # calls[d].count
       /\ Cardinality(Allowed(k)) <= config.maxRequests

\* Two callers have both incremented the counter of one key and neither has
\* finished, while the quota leaves room for only one of them.
C12_Witness ==
  /\ target = "redis"
  /\ config.algorithm = "fixed"
  /\ OneWindow
  /\ \E k \in Keys : \E c, d \in Counted(k) :
       /\ c # d
       /\ At(c, "expire") /\ At(d, "expire")
       /\ config.maxRequests = 1

\* C13: the steps of a sliding-window check act as one operation towards
\* concurrent checks of the key: no two allowed checks observe the same
\* pre-insert count, and at most maxRequests checks are allowed within one
\* trailing window.
C13_SlidingStepsAtomic ==
  (config.algorithm = "sliding" /\ OneWindow)
  => \A k \in Keys :
       /\ \A c, d \in Allowed(k) : c # d => calls[c].count # calls[d].count
       /\ Cardinality(Allowed(k)) <= config.maxRequests

\* C21: housekeeping runs on a timer for every local store: an expired
\* entry of the fallback map, of the in-memory counter map and of the
\* in-memory block map is gone within one sweep interval of its expiry,
\* whether or not requests or cleanup calls arrive.
C21_SweptWithinInterval ==
  \A k \in Keys :
    /\ Has(fallbackLimits, k)
         => now < fallbackLimits[k].resetTime + CleanupIntervalMs
    /\ Has(limits, k) => now < limits[k].resetTime + CleanupIntervalMs
    /\ Has(blockedKeys, k) => now < blockedKeys[k] + CleanupIntervalMs

\* A sweep took from map `old` only entries of the keys in `expired` and
\* left the others as they were.
OnlyExpiredRemoved(old, new, expired) ==
  /\ DOMAIN new \subseteq DOMAIN old
  /\ \A k \in DOMAIN old :
       IF k \in expired THEN ~Has(new, k) \/ new[k] = old[k]
       ELSE Has(new, k) /\ new[k] = old[k]

\* The times of later checks.
Later == {now + i * TickMs : i \in 0..MaxTicks}

\* The decisions checks of key k at time t would get from the services in
\* the given state: the in-memory one, the remote one, the fallback one.
LaterDecisions(k, t, lim, blk, st, fb) ==
  <<MemCheckLimit(k, config, t, lim, blk).decision,
    RedisCheckLimit(k, config, t, NoFail, RedisExpire(st, t), fb).decision,
    RedisCheckLimit(k, config, t, FirstCallFails, RedisExpire(st, t),
                    fb).decision>>

\* C22: a housekeeping sweep changes no remote entry, removes from the local
\* maps only counters with now >= resetTime and blocks with
\* now >= blockedUntil, and leaves the decision of every later check as it
\* would have been without the sweep.
C22_SweepRemovesOnlyExpired ==
  [][last'.op = "cleanup"
     => /\ redis' = redis
        /\ OnlyExpiredRemoved(
             limits, limits',
             {k \in DOMAIN limits : now >= limits[k].resetTime})
        /\ OnlyExpiredRemoved(
             blockedKeys, blockedKeys',
             {k \in DOMAIN blockedKeys : now >= blockedKeys[k]})
        /\ OnlyExpiredRemoved(
             fallbackLimits, fallbackLimits',
             {k \in DOMAIN fallbackLimits :
                now >= fallbackLimits[k].resetTime})
        /\ \A k \in Keys, t \in Later :
             LaterDecisions(k, t, limits', blockedKeys', redis',
                            fallbackLimits')
               = LaterDecisions(k, t, limits, blockedKeys, redis,
                                fallbackLimits)]_vars

\* A sweep of the in-memory service has removed the expired counter of a key
\* and kept its block, which is still active.
C22_Witness ==
  \E k \in Keys :
    /\ last.op = "cleanup"
    /\ hist[k].n > 0
    /\ ~Has(limits, k)
    /\ Has(blockedKeys, k) /\ now < blockedKeys[k]

\* C23: the sliding window removes only timestamps strictly older than
\* now - windowMs: with the quota filled by requests at time t, a check at
\* exactly t + windowMs still counts them and is denied.
C23_EdgeTimestampCounts ==
  \A k \in Keys :
    (/\ target = "redis"
     /\ config.algorithm = "sliding"
     /\ ~InvalidConfig(config)
     /\ Decided(k)
     /\ last.path = "remote"
     /\ hist[k].burst >= config.maxRequests
     /\ last.at = hist[k].first + config.windowMs)
    => ~last.decision.allowed

\* C24: local counts start fresh in each outage: the first fallback decision
\* for a key after the remote store has answered (or at startup) is computed
\* from a local count of 0, also when an earlier outage counted requests of
\* the key locally in the same window.
C24_OutageStartsFresh ==
  [][(/\ last'.op = "check"
      /\ last'.path = "fallback"
      /\ \/ last.op = "init"
         \/ last.op = "check" /\ last.path = "remote"
              /\ last.key = last'.key)
     => last'.decision
          = CheckFallbackLimit(last'.key, config, now, EmptyMap).decision]_vars

\* C25: every remote counter key and every remote timestamp-set key that
\* exists carries an expiry, after any sequence of checks and remote
\* failures, a failure between the increment (or insert) and the expire
\* command included.
C25_RemoteKeysExpire ==
  \A k \in Keys :
    /\ Has(redis.rate_limit, k) => redis.rate_limit[k].expireAt # NoExpiry
    /\ Has(redis.sliding_rate_limit, k)
         => redis.sliding_rate_limit[k].expireAt # NoExpiry

\* C26: every decision has resetTime >= the time of its check; a blocked
\* decision of the remote-backed service reports no resetTime in the past,
\* also when the block key expires or is cleared between the block lookup
\* and the TTL read of the check.
C26_ResetTimeNotPast ==
  /\ \A c \in Callers :
       At(c, "done") => calls[c].decision.resetTime >= calls[c].at
  /\ \A k \in Keys : Decided(k) => last.decision.resetTime >= last.at

\* C27: getRemainingRequests agrees with checkLimit: without remote failure
\* it returns maxRequests less the number of requests admitted for the key
\* in the current window (the trailing window of a sliding policy).  Stated
\* for keys no block has been set for.
C27_RemainingAgrees ==
  (/\ last.op = "remaining"
   /\ last.path # "fallback"
   /\ ~InvalidConfig(config)
   /\ hist[last.key].blockAt < 0)
  => last.value
       = config.maxRequests
           - Len(Recent(hist[last.key], last.at, config))

\* The failures of the remote call that follows the counter pipeline of an
\* over-quota check: the compensating ZREM, the SETEX of the block.
LateFails == {f \in Fails : f.call \in {"zrem", "setex"}}

\* C28: a request the remote counter has found over quota is never answered
\* with allowed = true: when the call after the counter pipeline fails, the
\* decision of the fallback is a denial.
C28_OverQuotaStaysDenied ==
  [][(\E key \in Keys, f \in LateFails : RedisCheck(key, f))
     => ~last'.decision.allowed]_vars

\* The task has reached its final status (or was cancelled).
Settled(id) ==
  id \in DOMAIN tasks => tasks[id].status \in {"completed", "failed"}

\* A call of the service from outside.
Called ==
  \/ \E id \in TaskIds : \E priority \in PrioritiesOf(id) :
       AddTask(id, priority, MaxAttempts)
  \/ \E id \in TaskIds : RetryTask(id)
  \/ \E id \in TaskIds : CancelTask(id)

\* C29: every task added with addTask eventually reaches status completed
\* or failed, given that executions terminate and timers fire, also when no
\* further addTask or retryTask call arrives.
C29_EveryTaskSettles ==
  <>[][~Called]_vars => <>[](\A id \in TaskIds : Settled(id))

\* C30: the number of tasks executing at the same time stays between 0 and
\* maxConcurrentTasks, after any interleaving of addTask, retryTask,
\* cancelTask, completions, failures and backoff timers.
C30_ActiveTasksBounded ==
  /\ activeTasks >= 0
  /\ activeTasks <= maxConcurrentTasks
  /\ activeTasks = Cardinality(executing)

\* All slots are taken while a task waits in the queue, and a task has come
\* back from a backoff timer.
C30_Witness ==
  /\ activeTasks = maxConcurrentTasks
  /\ Len(queue) > 0
  /\ \E id \in executing : tasks[id].attempts >= 2

====
